---- MODULE Spec2Model ----
(***************************************************************************)
(* Meal-Counter-Pro: the per-page meal extraction, categorisation,         *)
(* aggregation and annotation layout of MealCounter, and the batch loop of *)
(* the Streamlit front end.                                                *)
(*                                                                         *)
(* Text is modelled as sequences of one-character strings, so that the     *)
(* substring tests, the regular expressions, int() and str() are computed  *)
(* character by character as Python computes them.  Coordinates are kept   *)
(* in tenths of a PDF unit, so that the 9.6 units per character and the    *)
(* division by two of the centring are exact.                              *)
(***************************************************************************)
EXTENDS Integers, Sequences, FiniteSets, TLC

(***************************************************************************)
(* Characters and the str methods used by the code                         *)
(***************************************************************************)
Digits == <<"0", "1", "2", "3", "4", "5", "6", "7", "8", "9">>

UpperCase == <<"A", "B", "C", "D", "E", "F", "G", "H", "I", "J", "K", "L", "M",
               "N", "O", "P", "Q", "R", "S", "T", "U", "V", "W", "X", "Y", "Z">>

LowerCase == <<"a", "b", "c", "d", "e", "f", "g", "h", "i", "j", "k", "l", "m",
               "n", "o", "p", "q", "r", "s", "t", "u", "v", "w", "x", "y", "z">>

\* The characters of the model in ascending code-point order.
CodePoints == <<" ", "-", ".", "/">> \o Digits \o <<":">> \o UpperCase
                 \o <<"_">> \o LowerCase

Range(s) == {s[k] : k \in 1..Len(s)}

Chars == Range(CodePoints)

\* ord(c), up to the order of the characters
OrdOf == [c \in Chars |-> CHOOSE k \in 1..Len(CodePoints) : CodePoints[k] = c]

Ord(c) == OrdOf[c]

DigitChars == Range(Digits)

WordChars == Range(Digits) \cup Range(UpperCase) \cup Range(LowerCase) \cup {"_"}

IsDigit(c) == c \in DigitChars

IsSpace(c) == c = " "

\* \w of the re module: letters, digits and the underscore.
IsWord(c) == c \in WordChars

DigitValue(c) == (CHOOSE k \in 1..10 : Digits[k] = c) - 1

LowerOf ==
  [c \in Chars |->
     IF \E k \in 1..26 : UpperCase[k] = c
     THEN LowerCase[CHOOSE k \in 1..26 : UpperCase[k] = c]
     ELSE c]

LowerChar(c) == LowerOf[c]

\* str.lower()
Lower(s) == [k \in 1..Len(s) |-> LowerChar(s[k])]

\* str.strip()
Strip(s) ==
  LET keep == {k \in 1..Len(s) : ~IsSpace(s[k])}
  IN  IF keep = {} THEN <<>>
      ELSE LET first == CHOOSE k \in keep : \A m \in keep : k <= m
               last  == CHOOSE k \in keep : \A m \in keep : m <= k
           IN  SubSeq(s, first, last)

\* s[at:].startswith(sub), with at counted from 1
StartsWithAt(s, sub, at) ==
  /\ at + Len(sub) - 1 <= Len(s)
  /\ \A k \in 1..Len(sub) : s[at + k - 1] = sub[k]

\* sub in s
Contains(sub, s) == \E at \in 1..(Len(s) + 1) : StartsWithAt(s, sub, at)

\* int(s) of a digit string
RECURSIVE ParseInt(_)
ParseInt(s) ==
  IF s = <<>> THEN 0
  ELSE 10 * ParseInt(SubSeq(s, 1, Len(s) - 1)) + DigitValue(s[Len(s)])

\* str(n) of a non-negative integer
RECURSIVE IntToStr(_)
IntToStr(n) ==
  IF n < 10 THEN <<Digits[n + 1]>>
  ELSE IntToStr(n \div 10) \o <<Digits[(n % 10) + 1]>>

\* a < b for Python strings: code-point lexicographic order
RECURSIVE StrLess(_, _)
StrLess(a, b) ==
  IF b = <<>> THEN FALSE
  ELSE IF a = <<>> THEN TRUE
  ELSE IF a[1] # b[1] THEN Ord(a[1]) < Ord(b[1])
  ELSE StrLess(Tail(a), Tail(b))

\* s.replace(old, new): every non-overlapping occurrence, left to right
RECURSIVE Replace(_, _, _)
Replace(s, old, new) ==
  IF s = <<>> THEN <<>>
  ELSE IF StartsWithAt(s, old, 1)
       THEN new \o Replace(SubSeq(s, Len(old) + 1, Len(s)), old, new)
       ELSE <<s[1]>> \o Replace(Tail(s), old, new)

(***************************************************************************)
(* The regular expressions of extract_meals_from_page (re.match anchors at *)
(* the start of the line only)                                             *)
(***************************************************************************)
\* re.match(r'^\d+$', s)
MatchDigits(s) == s # <<>> /\ \A k \in 1..Len(s) : IsDigit(s[k])

\* re.match(r'\d{2}\s+\w+', s)
MatchDayMonth(s) ==
  /\ Len(s) >= 4
  /\ IsDigit(s[1]) /\ IsDigit(s[2]) /\ IsSpace(s[3])
  /\ \E k \in 4..Len(s) : IsWord(s[k]) /\ \A m \in 3..(k - 1) : IsSpace(s[m])

\* re.match(r'\d{4}$', s)
MatchYear(s) == Len(s) = 4 /\ \A k \in 1..4 : IsDigit(s[k])

\* re.match(r'\d{2}/\d{2}/\d{2}', s)
MatchDate(s) ==
  /\ Len(s) >= 8
  /\ \A k \in {1, 2, 4, 5, 7, 8} : IsDigit(s[k])
  /\ s[3] = "/" /\ s[6] = "/"

(***************************************************************************)
(* Bounds of the model                                                     *)
(***************************************************************************)
\* longest page over CoreLines or over MidLines
MaxLines == 6

\* longest page over AllLines
MaxShort == 2

\* most pages in a document of several pages
MaxPages == 2

\* most files in one batch upload
MaxFiles == 3

(***************************************************************************)
(* Text lines of the modelled reports                                      *)
(***************************************************************************)
Rice == <<"R", "i", "c", "e">>

BeefStew == <<"B", "e", "e", "f", " ", "S", "t", "e", "w">>

BeefyStew == <<"B", "e", "e", "f", "y", " ", "S", "t", "e", "w">>

LentilSoup == <<"L", "e", "n", "t", "i", "l", " ", "S", "o", "u", "p">>

ChickenCurry == <<"C", "h", "i", "c", "k", "e", "n", " ", "C", "u", "r", "r", "y">>

FishFillet == <<"F", "i", "s", "h", " ", "F", "i", "l", "l", "e", "t">>

\* fish before chicken in the text, upper case, padded
FishAndChicken == <<" ", "F", "I", "S", "H", " ", "c", "h", "i", "c", "k", "e", "n", " ">>

BeefFish == <<"f", "i", "s", "h", " ", "B", "E", "E", "F">>

VeggieSoup == <<"V", "e", "g", "g", "i", "e", " ", "S", "o", "u", "p">>

VegetarianPizza == <<"V", "e", "g", "e", "t", "a", "r", "i", "a", "n", " ",
                     "P", "i", "z", "z", "a">>

LentilChicken == <<"c", "h", "i", "c", "k", "e", "n", " ", "l", "e", "n", "t", "i", "l">>

PastaSalad == <<"P", "a", "s", "t", "a", " ", "S", "a", "l", "a", "d">>

Gravy == <<"G", "r", "a", "v", "y">>

LongPasta == <<"W", "h", "o", "l", "e", "w", "h", "e", "a", "t", " ", "P",
             "a", "s", "t", "a", " ", "W", "i", "t", "h", " ", "R", "o", "a",
             "s", "t", "e", "d", " ", "V", "e", "g", "e", "t", "a", "b", "l",
             "e", "s">>

LongSide == <<"A", "n", "d", " ", "G", "a", "r", "l", "i", "c", " ", "B", "r",
            "e", "a", "d", " ", "O", "n", " ", "T", "h", "e", " ", "S", "i",
            "d", "e">>

Cycle5 == <<"C", "y", "c", "l", "e", " ", "5">>

GrandTotal == <<"G", "r", "a", "n", "d", " ", "T", "o", "t", "a", "l">>

PastaTotal == <<"P", "a", "s", "t", "a", " ", "T", "o", "t", "a", "l">>

ChickenWrap12 == <<"1", "2", " ", "C", "h", "i", "c", "k", "e", "n", " ", "W", "r", "a", "p">>

VeggieBowl == <<"V", "e", "g", "g", "i", "e", " ", "B", "o", "w", "l">>

Year2025 == <<"2", "0", "2", "5">>

FishOnDate == <<"0", "1", "/", "0", "2", "/", "2", "5", " ", "F", "i", "s", "h">>

Date == <<"D", "a", "t", "e">>

Grade == <<"G", "r", "a", "d", "e">>

DayMonth == <<"0", "1", " ", "J", "a", "n">>

Blank == <<" ">>

Minus5 == <<"-", "5">>

Q0 == <<"0">>

Q7 == <<"7">>

Q8 == <<"8">>

Q12 == <<" ", "1", "2">>

Q45 == <<"4", "5">>

Q100 == <<"1", "0", "0">>

Q101 == <<"1", "0", "1">>

Q150 == <<"1", "5", "0">>

CoreLines == {Rice, Q7, Q150}

MidLines == {Rice, Q7, Q12}

AllLines == {Rice, FishAndChicken, BeefFish, VeggieSoup, VegetarianPizza,
             LentilChicken, PastaSalad, Gravy, Date, Blank,
             Minus5, Q0, Q7, Q100, Q101}

\* the concrete scenarios of the documentation, and pages with several categories
SamplePages ==
  { <<ChickenCurry, Rice, Q45, Date, DayMonth>>,
    <<BeefyStew, Q12, LentilSoup, Q8>>,
    <<FishFillet, Grade, Q7>>,
    <<PastaSalad, Q7, FishFillet, Q12, BeefStew, Q100, PastaSalad, Q8>>,
    <<PastaSalad, PastaSalad, Q150, Q7, Rice, Q101>>,
    <<LongPasta, LongSide, Q7>>,
    <<Rice, Gravy, Date, Q150, Q0, Blank, Q7, Rice, Date, Blank, Minus5, Q101, Q12>>,
    <<Date, Gravy, Q150>> }

\* pages with header, date and total lines next to meal names
NoisePages ==
  { <<Rice, Cycle5, Q7>>,
    <<PastaTotal, Q7, Rice, GrandTotal, Q8, FishFillet, Year2025, Q12>>,
    <<ChickenWrap12, Q7, VeggieBowl, Q12, FishOnDate, Q45, Rice, VeggieBowl, Q8>> }

SeqsUpTo(S, n) == UNION {[1..k -> S] : k \in 0..n}

\* page sizes in PDF units: US Letter, and a narrow low label page
Letter == [width |-> 612, height |-> 792]

Label == [width |-> 200, height |-> 120]

PageSizes == {Letter, Label}

Page(ls, size) == [lines |-> ls, width |-> size.width, height |-> size.height]

PdfName(c) == <<c, ".", "p", "d", "f">>

\* one-page documents that exercise the line scan
ScanFiles ==
  { [name |-> PdfName("s"), fault |-> "none", pages |-> <<Page(ls, Letter)>>] :
      ls \in SeqsUpTo(CoreLines, MaxLines) \cup SeqsUpTo(MidLines, MaxLines)
               \cup SeqsUpTo(AllLines, MaxShort) \cup NoisePages }

\* documents of one sample page of either size, or of several Letter pages
DocFiles ==
  { [name |-> PdfName("d"), fault |-> "none", pages |-> ps] :
      ps \in {<<Page(ls, size)>> : ls \in SamplePages, size \in PageSizes}
               \cup (SeqsUpTo({Page(ls, Letter) : ls \in SamplePages}, MaxPages) \ {<<>>}) }

\* files of a batch: one that fitz.open rejects, one that cannot be saved, and
\* two that are processed
BatchFiles ==
  { [name |-> PdfName("a"), fault |-> "open", pages |-> <<>>],
    [name |-> PdfName("b"), fault |-> "none", pages |-> <<Page(<<BeefStew, Q7>>, Letter)>>],
    [name |-> PdfName("c"), fault |-> "none", pages |-> <<Page(<<Date>>, Letter)>>],
    [name |-> PdfName("e"), fault |-> "save", pages |-> <<Page(<<Rice, Q8>>, Letter)>>] }

Uploads ==
  {<<f>> : f \in ScanFiles \cup DocFiles} \cup (SeqsUpTo(BatchFiles, MaxFiles) \ {<<>>})

(***************************************************************************)
(* MealCounter.categorize_meal                                             *)
(***************************************************************************)
Str_beef == <<"b", "e", "e", "f">>

Str_beefy == <<"b", "e", "e", "f", "y">>

Str_lentil == <<"l", "e", "n", "t", "i", "l">>

Str_chicken == <<"c", "h", "i", "c", "k", "e", "n">>

Str_vegetarian == <<"v", "e", "g", "e", "t", "a", "r", "i", "a", "n">>

Str_veggie == <<"v", "e", "g", "g", "i", "e">>

Str_fish == <<"f", "i", "s", "h">>

Str_total == <<"t", "o", "t", "a", "l">>

MealSuffix == <<" ", "M", "e", "a", "l">>

BeefMeal == <<"B", "e", "e", "f">> \o MealSuffix

LentilMeal == <<"L", "e", "n", "t", "i", "l">> \o MealSuffix

ChickenMeal == <<"C", "h", "i", "c", "k", "e", "n">> \o MealSuffix

VegetarianMeal == <<"V", "e", "g", "e", "t", "a", "r", "i", "a", "n">> \o MealSuffix

FishMeal == <<"F", "i", "s", "h">> \o MealSuffix

\* variant: the fish rule tried first
categorize_meal_fish_first(meal_name) ==
  LET meal_lower == Lower(meal_name)
  IN  IF Contains(Str_fish, meal_lower) THEN FishMeal
      ELSE IF Contains(Str_beef, meal_lower) \/ Contains(Str_beefy, meal_lower) THEN BeefMeal
      ELSE IF Contains(Str_lentil, meal_lower) THEN LentilMeal
      ELSE IF Contains(Str_chicken, meal_lower) THEN ChickenMeal
      ELSE IF Contains(Str_vegetarian, meal_lower) \/ Contains(Str_veggie, meal_lower)
           THEN VegetarianMeal
      ELSE Strip(meal_name)

categorize_meal(meal_name) ==
  LET meal_lower == Lower(meal_name)
  IN  IF Contains(Str_beef, meal_lower) \/ Contains(Str_beefy, meal_lower) THEN BeefMeal
      ELSE IF Contains(Str_lentil, meal_lower) THEN LentilMeal
      ELSE IF Contains(Str_chicken, meal_lower) THEN ChickenMeal
      ELSE IF Contains(Str_vegetarian, meal_lower) \/ Contains(Str_veggie, meal_lower)
           THEN VegetarianMeal
      ELSE IF Contains(Str_fish, meal_lower) THEN FishMeal
      ELSE Strip(meal_name)

(***************************************************************************)
(* MealCounter.extract_meals_from_page: the tests of one loop iteration    *)
(***************************************************************************)
\* the header words skipped as a line of their own
HeaderWords ==
  { <<"D", "a", "t", "e">>, <<"S", "c", "h", "o", "o", "l">>, <<"M", "e", "a", "l">>,
    <<"Q", "u", "a", "n", "t", "i", "t", "y">>, <<"G", "r", "a", "d", "e">>,
    <<"C", "l", "a", "s", "s">>, <<"D", "i", "n", "e", "r">>,
    <<"C", "y", "c", "l", "e", " ", "5">> }

\* the header words that end a meal name
ContinuationStopWords ==
  { <<"D", "a", "t", "e">>, <<"S", "c", "h", "o", "o", "l">>, <<"M", "e", "a", "l">>,
    <<"Q", "u", "a", "n", "t", "i", "t", "y">>, <<"G", "r", "a", "d", "e">>,
    <<"C", "l", "a", "s", "s">>, <<"D", "i", "n", "e", "r">> }

FoodKeywords ==
  { <<"p", "a", "s", "t", "a">>, <<"p", "i", "z", "z", "a">>,
    <<"b", "u", "r", "g", "e", "r">>, <<"s", "a", "l", "a", "d">>,
    <<"s", "o", "u", "p">>, <<"r", "i", "c", "e">>, Str_chicken, Str_beef,
    Str_lentil, Str_fish }

\* lines[i].strip(), i counted from 0 as in the code
LineAt(ls, i) == Strip(ls[i + 1])

IsHeaderLine(line) == line = <<>> \/ line \in HeaderWords

\* variant: no line is taken for a date
IsDateLine_never(line) == FALSE

\* the three re.match tests for day/month labels, 4-digit tokens and dates
IsDateLine(line) == MatchDayMonth(line) \/ MatchYear(line) \/ MatchDate(line)

IsTotalLine(line) == Contains(Str_total, Lower(line))

HasFoodKeyword(line) ==
  LET line_lower == Lower(line)
  IN  \E keyword \in FoodKeywords : Contains(keyword, line_lower)

\* the line at i starts a meal name
IsMealLine(ls, i) ==
  LET line == LineAt(ls, i)
  IN  /\ ~IsHeaderLine(line)
      /\ ~IsDateLine(line)
      /\ ~IsTotalLine(line)
      /\ HasFoodKeyword(line)

\* the line after the meal line at i is appended to the name
IsContinuation(ls, i) ==
  /\ i + 1 < Len(ls)
  /\ LET next_line == LineAt(ls, i + 1)
     IN  /\ next_line # <<>>
         /\ ~MatchDigits(next_line)
         /\ ~MatchDayMonth(next_line)
         /\ next_line \notin ContinuationStopWords

Min(a, b) == IF a <= b THEN a ELSE b

\* variant: a window of five lines
LookaheadRange_five(i, n) == (i + 1)..(Min(i + 6, n) - 1)

\* range(i + 1, min(i + 5, len(lines)))
LookaheadRange(i, n) == (i + 1)..(Min(i + 5, n) - 1)

\* variant: no range test
QuantityInRange_any(qty) == TRUE

\* 1 <= qty <= 100
QuantityInRange(qty) == 1 <= qty /\ qty <= 100

\* variant: the last valid quantity of the window instead of the first
ScanQuantity_last(ls, i) ==
  LET hits == {j \in LookaheadRange(i, Len(ls)) :
                 /\ MatchDigits(LineAt(ls, j))
                 /\ QuantityInRange(ParseInt(LineAt(ls, j)))}
  IN  IF hits = {} THEN 0
      ELSE ParseInt(LineAt(ls, CHOOSE j \in hits : \A m \in hits : m <= j))

\* the for loop over the window after index i: the first bare integer in range, or 0
ScanQuantity(ls, i) ==
  LET hits == {j \in LookaheadRange(i, Len(ls)) :
                 /\ MatchDigits(LineAt(ls, j))
                 /\ QuantityInRange(ParseInt(LineAt(ls, j)))}
  IN  IF hits = {} THEN 0
      ELSE ParseInt(LineAt(ls, CHOOSE j \in hits : \A m \in hits : j <= m))

(***************************************************************************)
(* meal_counts: a defaultdict(int), kept as its items in insertion order   *)
(***************************************************************************)
EmptyDict == <<>>

Keys(d) == {d[k][1] : k \in 1..Len(d)}

\* variant: d[key] = amount
DictAdd_overwrite(d, key, amount) ==
  IF key \in Keys(d)
  THEN [k \in 1..Len(d) |-> IF d[k][1] = key THEN <<key, amount>> ELSE d[k]]
  ELSE Append(d, <<key, amount>>)

\* d[key] += amount
DictAdd(d, key, amount) ==
  IF key \in Keys(d)
  THEN [k \in 1..Len(d) |-> IF d[k][1] = key THEN <<key, d[k][2] + amount>> ELSE d[k]]
  ELSE Append(d, <<key, 0 + amount>>)

\* variant: the cursor moves behind the quantity line that was used
LoopBody_consuming(ls, i, counts) ==
  IF ~IsMealLine(ls, i)
  THEN [i |-> i + 1, meal_counts |-> counts, met |-> <<>>]
  ELSE LET merged    == IsContinuation(ls, i)
           meal_name == IF merged
                        THEN LineAt(ls, i) \o <<" ">> \o LineAt(ls, i + 1)
                        ELSE LineAt(ls, i)
           last      == IF merged THEN i + 1 ELSE i
           quantity  == ScanQuantity(ls, last)
           hits      == {j \in LookaheadRange(last, Len(ls)) :
                           /\ MatchDigits(LineAt(ls, j))
                           /\ QuantityInRange(ParseInt(LineAt(ls, j)))}
           used      == CHOOSE j \in hits : \A m \in hits : j <= m
       IN  [ i           |-> IF quantity > 0 THEN used + 1 ELSE last + 1,
             meal_counts |-> IF quantity > 0
                             THEN DictAdd(counts, categorize_meal(meal_name), quantity)
                             ELSE counts,
             met         |-> << [ start    |-> i,
                                  last     |-> last,
                                  name     |-> meal_name,
                                  quantity |-> quantity,
                                  category |-> IF quantity > 0
                                               THEN categorize_meal(meal_name)
                                               ELSE <<>> ] >> ]

(***************************************************************************)
(* MealCounter.extract_meals_from_page: the loop                           *)
(***************************************************************************)
\* The body of the while loop at cursor i with the totals counts: the cursor and
\* the totals after it, and the meal name met (at most one) with what was found.
LoopBody(ls, i, counts) ==
  IF ~IsMealLine(ls, i)
  THEN [i |-> i + 1, meal_counts |-> counts, met |-> <<>>]
  ELSE LET merged    == IsContinuation(ls, i)
           meal_name == IF merged
                        THEN LineAt(ls, i) \o <<" ">> \o LineAt(ls, i + 1)
                        ELSE LineAt(ls, i)
           last      == IF merged THEN i + 1 ELSE i
           quantity  == ScanQuantity(ls, last)
       IN  [ i           |-> last + 1,
             meal_counts |-> IF quantity > 0
                             THEN DictAdd(counts, categorize_meal(meal_name), quantity)
                             ELSE counts,
             met         |-> << [ start    |-> i,
                                  last     |-> last,
                                  name     |-> meal_name,
                                  quantity |-> quantity,
                                  category |-> IF quantity > 0
                                               THEN categorize_meal(meal_name)
                                               ELSE <<>> ] >> ]

\* the while loop run from cursor i with the totals counts to its end
RECURSIVE RunLoop(_, _, _)
RunLoop(ls, i, counts) ==
  IF i < Len(ls)
  THEN LET body == LoopBody(ls, i, counts)
       IN  RunLoop(ls, body.i, body.meal_counts)
  ELSE counts

\* the mapping extract_meals_from_page returns for a page with the lines ls
extract_meals_from_page(ls) == RunLoop(ls, 0, <<>>)

(***************************************************************************)
(* MealCounter.add_totals_to_page                                          *)
(***************************************************************************)
\* coordinates are kept in tenths of a unit
Tenths(n) == 10 * n

line_height == 22

\* 9.6 units per character, in tenths
char_width == 96

Str_Total == <<" ", "T", "o", "t", "a", "l", ":", " ">>

\* (key, value) tuples compare by key, then by value
ItemLess(a, b) == StrLess(a[1], b[1]) \/ (a[1] = b[1] /\ a[2] < b[2])

RECURSIVE SortItems(_)
SortItems(items) ==
  IF items = <<>> THEN <<>>
  ELSE LET x    == items[Len(items)]
           rest == SortItems(SubSeq(items, 1, Len(items) - 1))
           pos  == Cardinality({k \in 1..Len(rest) : ~ItemLess(x, rest[k])})
       IN  SubSeq(rest, 1, pos) \o <<x>> \o SubSeq(rest, pos + 1, Len(rest))

\* variant: list(meal_totals.items()), in insertion order
sorted_meals_unsorted(meal_totals) == meal_totals

\* sorted(meal_totals.items())
sorted_meals(meal_totals) == SortItems(meal_totals)

\* f"{meal_type} Total: {total}"
BlockText(meal_type, total) == meal_type \o Str_Total \o IntToStr(total)

\* variant: the stack height left out
start_y_margin_only(page, n) == Tenths(page.height) - Tenths(90)

\* page_height - 90 - (len(sorted_meals) * line_height)
start_y(page, n) == Tenths(page.height) - Tenths(90) - (n * Tenths(line_height))

\* variant: flush left
x_left_flush(page, text) == 0

\* (page_width - text_width) / 2 with text_width = len(text) * 9.6
x_left(page, text) == (Tenths(page.width) - Len(text) * char_width) \div 2

\* the FreeText annotations the call adds to the page, in the order it adds them
add_totals_to_page(page, meal_totals) ==
  LET sorted == sorted_meals(meal_totals)
  IN  [k \in 1..Len(sorted) |->
        LET text  == BlockText(sorted[k][1], sorted[k][2])
            y_top == start_y(page, Len(sorted)) + ((k - 1) * Tenths(line_height))
        IN  [ rect |-> [ x_left   |-> x_left(page, text),
                         y_top    |-> y_top,
                         x_right  |-> x_left(page, text) + Len(text) * char_width,
                         y_bottom |-> y_top + Tenths(line_height) ],
              text |-> text ] ]

(***************************************************************************)
(* State                                                                   *)
(***************************************************************************)
VARIABLES
  uploaded_files,   \* the files of the upload, in upload order
  idx,              \* index of the batch loop, from 0
  pc,               \* "batch", "page", "scan" or "done"
  processed_files,  \* list of (output_filename, processed_pdf)
  warnings,         \* names of the files st.warning reported
  download,         \* the names in the offered ZIP, or <<"none">>
  page_num,         \* index of the page loop of process_pdf, from 0
  annots,           \* doc: the annotations added to each page so far
  totals_log,       \* the meal_totals returned for each page of doc so far
  lines,            \* extract_meals_from_page: text.split('\n')
  i,                \* extract_meals_from_page: the cursor, from 0
  meal_counts,      \* extract_meals_from_page: the running totals
  starts            \* the meal names met on this page, with the quantity found

vars == <<uploaded_files, idx, pc, processed_files, warnings, download, page_num,
          annots, totals_log, lines, i, meal_counts, starts>>

batch_vars == <<uploaded_files, idx, processed_files, warnings, download>>

doc_vars == <<page_num, annots, totals_log>>

scan_vars == <<lines, i, meal_counts, starts>>

NoDownload == <<"none">>

Init ==
  /\ uploaded_files \in Uploads
  /\ idx = 0
  /\ pc = "batch"
  /\ processed_files = <<>>
  /\ warnings = <<>>
  /\ download = NoDownload
  /\ page_num = 0
  /\ annots = <<>>
  /\ totals_log = <<>>
  /\ lines = <<>>
  /\ i = 0
  /\ meal_counts = EmptyDict
  /\ starts = <<>>

uploaded_file == uploaded_files[idx + 1]

page == uploaded_file.pages[page_num + 1]

total_pages == Len(uploaded_file.pages)

Str_pdf == <<".", "p", "d", "f">>

Str_with_totals_pdf == <<"_", "w", "i", "t", "h", "_", "t", "o", "t", "a", "l", "s">> \o Str_pdf

\* uploaded_file.name.replace('.pdf', '_with_totals.pdf')
output_filename(name) == Replace(name, Str_pdf, Str_with_totals_pdf)

(***************************************************************************)
(* The batch loop of the front end and process_pdf                         *)
(***************************************************************************)
\* variant: the failure ends the whole batch
OpenFails_aborts_batch ==
  /\ pc = "batch"
  /\ idx < Len(uploaded_files)
  /\ uploaded_file.fault = "open"
  /\ warnings' = Append(warnings, uploaded_file.name)
  /\ pc' = "done"
  /\ UNCHANGED <<uploaded_files, idx, processed_files, download>>
  /\ UNCHANGED doc_vars
  /\ UNCHANGED scan_vars

\* fitz.open raises: the except branch warns, and the loop goes on
OpenFails ==
  /\ pc = "batch"
  /\ idx < Len(uploaded_files)
  /\ uploaded_file.fault = "open"
  /\ warnings' = Append(warnings, uploaded_file.name)
  /\ idx' = idx + 1
  /\ UNCHANGED <<uploaded_files, pc, processed_files, download>>
  /\ UNCHANGED doc_vars
  /\ UNCHANGED scan_vars

\* fitz.open succeeds: process_pdf starts its page loop
OpenDocument ==
  /\ pc = "batch"
  /\ idx < Len(uploaded_files)
  /\ uploaded_file.fault # "open"
  /\ pc' = "page"
  /\ page_num' = 0
  /\ annots' = [p \in 1..total_pages |-> <<>>]
  /\ totals_log' = <<>>
  /\ UNCHANGED batch_vars
  /\ UNCHANGED scan_vars

\* variant: the mapping of the previous page is kept
meal_counts_kept == meal_counts

\* meal_counts = defaultdict(int)
new_meal_counts == EmptyDict

\* extract_meals_from_page is entered for the next page
BeginPage ==
  /\ pc = "page"
  /\ page_num < total_pages
  /\ lines' = page.lines
  /\ meal_counts' = new_meal_counts
  /\ i' = 0
  /\ starts' = <<>>
  /\ pc' = "scan"
  /\ UNCHANGED batch_vars
  /\ UNCHANGED doc_vars

\* one iteration of the while loop
ScanLine ==
  /\ pc = "scan"
  /\ i < Len(lines)
  /\ LET body == LoopBody(lines, i, meal_counts)
     IN  /\ i' = body.i
         /\ meal_counts' = body.meal_counts
         /\ starts' = starts \o body.met
  /\ UNCHANGED <<lines, pc>>
  /\ UNCHANGED batch_vars
  /\ UNCHANGED doc_vars

\* the loop ends, meal_counts is returned, and the totals are drawn if there are any
FinishPage ==
  /\ pc = "scan"
  /\ i >= Len(lines)
  /\ totals_log' = Append(totals_log, meal_counts)
  /\ annots' = IF meal_counts # EmptyDict
               THEN [annots EXCEPT ![page_num + 1] = @ \o add_totals_to_page(page, meal_counts)]
               ELSE annots
  /\ page_num' = page_num + 1
  /\ pc' = "page"
  /\ UNCHANGED batch_vars
  /\ UNCHANGED scan_vars

\* doc.save raises: the except branch warns, and the loop goes on
SaveFails ==
  /\ pc = "page"
  /\ page_num >= total_pages
  /\ uploaded_file.fault = "save"
  /\ warnings' = Append(warnings, uploaded_file.name)
  /\ idx' = idx + 1
  /\ pc' = "batch"
  /\ UNCHANGED <<uploaded_files, processed_files, download>>
  /\ UNCHANGED doc_vars
  /\ UNCHANGED scan_vars

\* doc.save, the output is read back and appended to the results
SaveDocument ==
  /\ pc = "page"
  /\ page_num >= total_pages
  /\ uploaded_file.fault # "save"
  /\ processed_files' = Append(processed_files, <<output_filename(uploaded_file.name), annots>>)
  /\ idx' = idx + 1
  /\ pc' = "batch"
  /\ UNCHANGED <<uploaded_files, warnings, download>>
  /\ UNCHANGED doc_vars
  /\ UNCHANGED scan_vars

\* after the loop the ZIP is built and offered if any file was processed
FinishBatch ==
  /\ pc = "batch"
  /\ idx >= Len(uploaded_files)
  /\ download' = IF processed_files # <<>>
                 THEN [k \in 1..Len(processed_files) |-> processed_files[k][1]]
                 ELSE NoDownload
  /\ pc' = "done"
  /\ UNCHANGED <<uploaded_files, idx, processed_files, warnings>>
  /\ UNCHANGED doc_vars
  /\ UNCHANGED scan_vars

Next ==
  \/ OpenFails
  \/ OpenDocument
  \/ BeginPage
  \/ ScanLine
  \/ FinishPage
  \/ SaveFails
  \/ SaveDocument
  \/ FinishBatch

Spec == Init /\ [][Next]_vars

(***************************************************************************)
(* Quantity lookahead                                                      *)
(***************************************************************************)
\* the line at index j (from 0) is a bare digit string with a value in [1,100]
IsValidQuantityLine(ls, j) ==
  /\ j < Len(ls)
  /\ \A c \in Range(LineAt(ls, j)) : c \in {"0", "1", "2", "3", "4", "5", "6", "7", "8", "9"}
  /\ LineAt(ls, j) # <<>>
  /\ ParseInt(LineAt(ls, j)) >= 1
  /\ ParseInt(LineAt(ls, j)) <= 100

\* the value of the first valid quantity line among the offsets ds after index last, or 0
FirstValidQuantity(ls, last, ds) ==
  LET ok == {d \in ds : IsValidQuantityLine(ls, last + d)}
  IN  IF ok = {} THEN 0
      ELSE ParseInt(LineAt(ls, last + (CHOOSE d \in ok : \A m \in ok : d <= m)))

\* C1: the quantity found for a meal name is the value of the first bare digit
\* line with a value in [1,100] among the 4 lines directly after the last line of
\* the name (the name line, or its merged continuation line); lines outside
\* [1,100] are passed over, the 5th and later lines are never used, and without
\* such a line nothing is found; a valid quantity directly after the name line is
\* the quantity, and every quantity added is in [1,100].
QuantityIsFirstValidInWindow ==
  \A k \in 1..Len(starts) :
    LET e == starts[k]
    IN  /\ e.last \in {e.start, e.start + 1}
        /\ e.quantity = FirstValidQuantity(lines, e.last, 1..4)
        /\ e.quantity = 0 \/ (1 <= e.quantity /\ e.quantity <= 100)
        /\ IsValidQuantityLine(lines, e.start + 1) =>
             /\ e.last = e.start
             /\ e.quantity = ParseInt(LineAt(lines, e.start + 1))

\* a name with a merged continuation line, four lines without a valid quantity,
\* and a valid quantity on the fifth line after the continuation: nothing is found
FifthLineNotUsed ==
  \E k \in 1..Len(starts) :
    /\ starts[k].last = starts[k].start + 1
    /\ IsValidQuantityLine(lines, starts[k].last + 5)
    /\ starts[k].quantity = 0

\* the line is an integer literal: digits with an optional minus sign
IsIntegerText(s) ==
  \/ MatchDigits(s)
  \/ (Len(s) >= 2 /\ s[1] = "-" /\ MatchDigits(Tail(s)))

IntegerValue(s) == IF s[1] = "-" THEN 0 - ParseInt(Tail(s)) ELSE ParseInt(s)

\* the line after the name line of entry e is an integer outside [1,100]
FollowedByInvalidInteger(e) ==
  /\ e.start + 1 < Len(lines)
  /\ IsIntegerText(LineAt(lines, e.start + 1))
  /\ (IntegerValue(LineAt(lines, e.start + 1)) <= 0
        \/ IntegerValue(LineAt(lines, e.start + 1)) > 100)

\* C2 as stated: an integer outside [1,100] directly after the name line means
\* that the name line contributes nothing, whatever follows.
InvalidQuantityDropsName ==
  \A k \in 1..Len(starts) :
    FollowedByInvalidInteger(starts[k]) => starts[k].quantity = 0

\* C2 amended: an integer outside [1,100] directly after the name line is never
\* the quantity itself; the scan goes on through the rest of the window, and the
\* name line contributes the first valid quantity found there, or nothing when
\* there is none.  A digit string stays outside the name and leaves three more
\* lines in the window; a negative literal is merged into the name as its
\* continuation line, and the window is the four lines after it.
InvalidQuantitySkipped ==
  \A k \in 1..Len(starts) :
    LET e == starts[k]
    IN  FollowedByInvalidInteger(e) =>
          /\ e.last = (IF MatchDigits(LineAt(lines, e.start + 1)) THEN e.start ELSE e.start + 1)
          /\ e.quantity = FirstValidQuantity(lines, e.start + 1, 1..(e.last - e.start + 3))
          /\ e.quantity > 0 => e.quantity # IntegerValue(LineAt(lines, e.start + 1))

\* a name line followed by an integer above 100 and then by a valid quantity,
\* which is found
InvalidThenValidQuantity ==
  \E k \in 1..Len(starts) :
    /\ FollowedByInvalidInteger(starts[k])
    /\ IntegerValue(LineAt(lines, starts[k].start + 1)) > 100
    /\ IsValidQuantityLine(lines, starts[k].start + 2)
    /\ starts[k].quantity = ParseInt(LineAt(lines, starts[k].start + 2))

(***************************************************************************)
(* Categories                                                              *)
(***************************************************************************)
\* the rules in priority order: the keywords of a rule, and its category
CategoryRules ==
  << [keywords |-> {Str_beef, Str_beefy},        category |-> BeefMeal],
     [keywords |-> {Str_lentil},                 category |-> LentilMeal],
     [keywords |-> {Str_chicken},                category |-> ChickenMeal],
     [keywords |-> {Str_vegetarian, Str_veggie}, category |-> VegetarianMeal],
     [keywords |-> {Str_fish},                   category |-> FishMeal] >>

FixedCategories == {CategoryRules[r].category : r \in 1..Len(CategoryRules)}

\* the rules with a keyword that occurs in the name, ignoring case
MatchingRules(name) ==
  {r \in 1..Len(CategoryRules) :
     \E kw \in CategoryRules[r].keywords : Contains(kw, Lower(name))}

\* the names that were given a category on this page
CategorizedNames == {k \in 1..Len(starts) : starts[k].quantity > 0}

\* C3: every categorized name gets exactly one category: that of the first rule,
\* in the order Beef, Lentil, Chicken, Vegetarian, Fish, with a keyword occurring
\* in the name as a case-insensitive substring, and the trimmed name itself when
\* no rule matches; beef with fish is a Beef Meal, chicken with fish a Chicken Meal.
\* Every text line of a page that is entered is categorized as well, padded lines
\* and lines without any keyword included.
CategoryIsFirstMatchingRule ==
  /\ \A k \in CategorizedNames :
       LET e     == starts[k]
           rules == MatchingRules(e.name)
       IN  /\ e.name # <<>>
           /\ e.category \in FixedCategories \cup {Strip(e.name)}
           /\ rules = {} => e.category = Strip(e.name)
           /\ rules # {} =>
                e.category = CategoryRules[CHOOSE r \in rules : \A m \in rules : r <= m].category
           /\ (Contains(Str_beef, Lower(e.name)) /\ Contains(Str_fish, Lower(e.name)))
                => e.category = BeefMeal
           /\ (Contains(Str_chicken, Lower(e.name)) /\ Contains(Str_fish, Lower(e.name))
                 /\ MatchingRules(e.name) \subseteq {3, 4, 5})
                => e.category = ChickenMeal
  /\ (pc = "scan" /\ i = 0) =>
       \A j \in 1..Len(lines) :
         LET rules == MatchingRules(lines[j])
         IN  categorize_meal(lines[j]) =
               (IF rules = {} THEN Strip(lines[j])
                ELSE CategoryRules[CHOOSE r \in rules : \A m \in rules : r <= m].category)

\* a name with fish written before chicken, in upper case, is a Chicken Meal
FishChickenIsChicken ==
  \E k \in CategorizedNames :
    /\ Contains(Str_chicken, Lower(starts[k].name))
    /\ Contains(Str_fish, Lower(starts[k].name))
    /\ Lower(starts[k].name) # starts[k].name
    /\ starts[k].category = ChickenMeal

(***************************************************************************)
(* Aggregation                                                             *)
(***************************************************************************)
\* the sum of the quantities recorded for category c among the first n names
RECURSIVE QuantitySum(_, _, _)
QuantitySum(log, n, c) ==
  IF n = 0 THEN 0
  ELSE QuantitySum(log, n - 1, c)
         + (IF log[n].quantity > 0 /\ log[n].category = c THEN log[n].quantity ELSE 0)

\* C4: while a page is scanned and when its mapping is returned, a category is a
\* key of the mapping exactly if a record of that category was emitted, every key
\* occurs once, its value is the sum of the quantities of those records and is at
\* least 1, and the mapping is empty exactly if no record was emitted.
TotalsAreSumsOfRecords ==
  /\ Keys(meal_counts) = {starts[k].category : k \in CategorizedNames}
  /\ Cardinality(Keys(meal_counts)) = Len(meal_counts)
  /\ \A k \in 1..Len(meal_counts) :
       /\ meal_counts[k][2] = QuantitySum(starts, Len(starts), meal_counts[k][1])
       /\ meal_counts[k][2] >= 1
  /\ (meal_counts = <<>>) <=> (CategorizedNames = {})
  /\ (pc = "page" /\ page_num > 0) => totals_log[page_num] = meal_counts

\* a returned mapping with a category that sums two records, and a second category
TotalOfTwoRecords ==
  /\ pc = "page"
  /\ page_num > 0
  /\ Len(meal_counts) >= 2
  /\ \E k \in 1..Len(meal_counts) :
       /\ Cardinality({n \in CategorizedNames : starts[n].category = meal_counts[k][1]}) = 2
       /\ meal_counts[k][2] = 15

(***************************************************************************)
(* Annotation blocks                                                       *)
(***************************************************************************)
\* the pages of the open document that process_pdf has finished
FinishedPages == IF pc \in {"page", "scan"} THEN 1..Len(totals_log) ELSE {}

PageNo(p) == uploaded_file.pages[p]

\* the item of the mapping totals that block b shows
ItemShown(totals, b) ==
  {n \in 1..Len(totals) :
     b.text = totals[n][1] \o <<" ", "T", "o", "t", "a", "l", ":", " ">>
                \o IntToStr(totals[n][2])}

\* C5: the blocks drawn on a page are one per category of its PageTotals, each
\* with the text '<Category> Total: <sum>', in ascending code-point order of the
\* category names whatever the order the categories were met in; for an empty
\* PageTotals nothing is drawn.
BlocksAreSortedTotals ==
  \A p \in FinishedPages :
    LET totals == totals_log[p]
        blocks == annots[p]
    IN  /\ Len(blocks) = Len(totals)
        /\ \A k \in 1..Len(blocks) : Cardinality(ItemShown(totals, blocks[k])) = 1
        /\ \A n \in 1..Len(totals) : \E k \in 1..Len(blocks) : n \in ItemShown(totals, blocks[k])
        /\ \A k \in 1..(Len(blocks) - 1) :
             \A n \in ItemShown(totals, blocks[k]) :
               \A m \in ItemShown(totals, blocks[k + 1]) :
                 StrLess(totals[n][1], totals[m][1])
        /\ totals = <<>> => blocks = <<>>

\* a page whose categories were met in descending order and are drawn ascending
BlocksReordered ==
  \E p \in FinishedPages :
    /\ Len(totals_log[p]) = 3
    /\ \A n \in 1..2 : StrLess(totals_log[p][n + 1][1], totals_log[p][n][1])
    /\ Len(annots[p]) = 3
    /\ 1 \in ItemShown(totals_log[p], annots[p][3])

\* C6: on a page of height h with n >= 1 categories, block i (from 0) has
\* y_top = h - 90 - 22n + 22i and y_bottom = y_top + 22; each block ends where the
\* next begins, no two blocks overlap, the last ends at h - 90, and all blocks
\* lie within [0, h] whenever 22n + 90 <= h.  (Coordinates in tenths.)
BlocksAreStacked ==
  \A p \in FinishedPages :
    LET blocks == annots[p]
        n      == Len(blocks)
        h      == 10 * PageNo(p).height
    IN  /\ \A k \in 1..n :
             /\ blocks[k].rect.y_top = h - 900 - 220 * n + 220 * (k - 1)
             /\ blocks[k].rect.y_bottom = blocks[k].rect.y_top + 220
        /\ \A k \in 1..(n - 1) : blocks[k].rect.y_bottom = blocks[k + 1].rect.y_top
        /\ \A k \in 1..n : \A m \in 1..n :
             k < m => blocks[k].rect.y_bottom <= blocks[m].rect.y_top
        /\ n >= 1 => blocks[n].rect.y_bottom = h - 900
        /\ 22 * n + 90 <= PageNo(p).height =>
             \A k \in 1..n : 0 <= blocks[k].rect.y_top /\ blocks[k].rect.y_bottom <= h

\* three blocks stacked on a Letter page
ThreeBlocksStacked ==
  \E p \in FinishedPages :
    /\ Len(annots[p]) = 3
    /\ PageNo(p).height = 792
    /\ annots[p][1].rect.y_top = 6360
    /\ annots[p][3].rect.y_bottom = 7020

\* C7 as stated: every block is as wide as its text at 9.6 units per character,
\* is centred, and lies within the page: 0 <= x_left <= x_right <= page_width.
BlocksWithinPageWidth ==
  \A p \in FinishedPages :
    \A k \in 1..Len(annots[p]) :
      LET r == annots[p][k].rect
          w == 10 * PageNo(p).width
      IN  /\ r.x_right - r.x_left = 96 * Len(annots[p][k].text)
          /\ r.x_left + r.x_right = w
          /\ 0 <= r.x_left /\ r.x_left <= r.x_right /\ r.x_right <= w

\* C7 amended: every block is as wide as its text at 9.6 units per character and
\* is centred on the page (x_left + x_right = page_width, x_left <= x_right); it
\* lies within the page, 0 <= x_left and x_right <= page_width, exactly when
\* len(text) * 9.6 <= page_width, and sticks out by the same amount on both
\* sides otherwise.
BlocksAreCentred ==
  \A p \in FinishedPages :
    \A k \in 1..Len(annots[p]) :
      LET r == annots[p][k].rect
          w == 10 * PageNo(p).width
      IN  /\ r.x_right - r.x_left = 96 * Len(annots[p][k].text)
          /\ r.x_left + r.x_right = w
          /\ r.x_left <= r.x_right
          /\ (0 <= r.x_left /\ r.x_right <= w) <=> (96 * Len(annots[p][k].text) <= w)
          /\ 0 - r.x_left = r.x_right - w

\* a block for a meal name that is its own category, centred inside a Letter page
PassThroughBlockCentred ==
  \E p \in FinishedPages :
    \E k \in 1..Len(annots[p]) :
      /\ PageNo(p).width = 612
      /\ \E n \in ItemShown(totals_log[p], annots[p][k]) :
           totals_log[p][n][1] \notin FixedCategories
      /\ annots[p][k].rect.x_left > 0
      /\ annots[p][k].rect.x_right < 6120

(***************************************************************************)
(* Order of the meal blocks of a page                                      *)
(***************************************************************************)
\* a meal block at index a (from 0): a meal-name line directly followed by its
\* own valid quantity line
IsMealBlock(ls, a) == IsMealLine(ls, a) /\ IsValidQuantityLine(ls, a + 1)

\* the pairs of meal blocks with at least one line between them
SeparatedBlocks(ls) ==
  {ab \in (0..(Len(ls) - 1)) \X (0..(Len(ls) - 1)) :
     /\ ab[1] + 3 <= ab[2]
     /\ IsMealBlock(ls, ab[1])
     /\ IsMealBlock(ls, ab[2])}

\* the page with the blocks at a and b exchanged and every other line in place
SwapBlocks(ls, a, b) ==
  [k \in 1..Len(ls) |->
     IF k = a + 1 THEN ls[b + 1]
     ELSE IF k = a + 2 THEN ls[b + 2]
     ELSE IF k = b + 1 THEN ls[a + 1]
     ELSE IF k = b + 2 THEN ls[a + 2]
     ELSE ls[k]]

\* two mappings hold the same totals for the same categories
SameTotals(d, e) == Range(d) = Range(e)

\* the meal-name lines outside the blocks at a and b that have no valid quantity
\* line of their own directly after them
UnpairedMealLines(ls, a, b) ==
  {q \in 0..(Len(ls) - 1) :
     /\ q \notin {a, b}
     /\ IsMealLine(ls, q)
     /\ ~IsValidQuantityLine(ls, q + 1)}

\* no line of the blocks at a and b is one of the five lines after an unpaired
\* meal-name line
OutOfReach(ls, a, b) ==
  \A q \in UnpairedMealLines(ls, a, b) :
    \A x \in {a, a + 1, b, b + 1} : ~(q < x /\ x <= q + 5)

\* the page that was scanned last has been returned
PageReturned == pc = "page" /\ page_num > 0

\* C8 as stated: exchanging two separated meal blocks of a page, every other
\* line left in place, does not change the PageTotals.
BlockOrderIrrelevant ==
  PageReturned =>
    \A ab \in SeparatedBlocks(lines) :
      SameTotals(extract_meals_from_page(SwapBlocks(lines, ab[1], ab[2])),
                 totals_log[page_num])

\* C8 amended: exchanging two separated meal blocks of a page, every other line
\* left in place, does not change the PageTotals, provided that no line of the
\* two blocks is among the five lines after another meal-name line that has no
\* valid quantity line of its own directly after it.
BlockOrderIrrelevantOutOfReach ==
  PageReturned =>
    \A ab \in SeparatedBlocks(lines) :
      OutOfReach(lines, ab[1], ab[2]) =>
        SameTotals(extract_meals_from_page(SwapBlocks(lines, ab[1], ab[2])),
                   totals_log[page_num])

\* two different blocks that can be exchanged, among other meal lines
DifferentBlocksExchanged ==
  /\ PageReturned
  /\ \E ab \in SeparatedBlocks(lines) :
       /\ OutOfReach(lines, ab[1], ab[2])
       /\ LineAt(lines, ab[1]) # LineAt(lines, ab[2])
       /\ LineAt(lines, ab[1] + 1) # LineAt(lines, ab[2] + 1)
       /\ \E q \in 0..(Len(lines) - 1) : q \notin {ab[1], ab[2]} /\ IsMealLine(lines, q)
       /\ Len(totals_log[page_num]) >= 2

(***************************************************************************)
(* Pages of one document                                                   *)
(***************************************************************************)
\* the files of the upload that are processed, and those whose processing raises
IsReadable(f) == f.fault = "none"

IsCorrupt(f) == f.fault # "none"

\* C9: the totals and the blocks of every finished page are those of that page's
\* own lines and size, scanned from an empty mapping whatever pages came before
\* it; two equal pages of a document get equal totals and blocks; and two files
\* with the same pages get the same annotations.
PagesAreIndependent ==
  /\ \A p \in FinishedPages :
       /\ totals_log[p] = RunLoop(PageNo(p).lines, 0, <<>>)
       /\ annots[p] = (IF totals_log[p] = <<>> THEN <<>>
                       ELSE add_totals_to_page(PageNo(p), totals_log[p]))
       /\ \A q \in FinishedPages :
            PageNo(p) = PageNo(q) => totals_log[p] = totals_log[q] /\ annots[p] = annots[q]
  /\ pc = "done" =>
       LET done == SelectSeq(uploaded_files, IsReadable)
       IN  \A j \in 1..Len(processed_files) : \A k \in 1..Len(processed_files) :
             done[j].pages = done[k].pages => processed_files[j][2] = processed_files[k][2]

\* the second page of a document is finished; it differs from the first, and both
\* have a total for the same category
SecondPageSharesCategory ==
  /\ pc = "page"
  /\ page_num = 2
  /\ PageNo(1) # PageNo(2)
  /\ Keys(totals_log[1]) \cap Keys(totals_log[2]) # {}
  /\ totals_log[1] # totals_log[2]

(***************************************************************************)
(* Batch mode                                                              *)
(***************************************************************************)
\* the output name of a file named by one character and .pdf
ExpectedOutputName(f) ==
  <<f.name[1], "_", "w", "i", "t", "h", "_", "t", "o", "t", "a", "l", "s", ".", "p", "d", "f">>

\* C10: the files are processed in upload order; a file whose processing raises
\* (it cannot be opened, or cannot be saved) is reported and left out of the
\* results, alone, and the files after it are still processed; after the loop the results are exactly the files that were
\* processed, in upload order, and the ZIP is offered only if there is one.
BatchSkipsFailedFiles ==
  LET handled == SubSeq(uploaded_files, 1, idx)
      good    == SelectSeq(handled, IsReadable)
      bad     == SelectSeq(handled, IsCorrupt)
  IN  /\ idx <= Len(uploaded_files)
      /\ Len(processed_files) = Len(good)
      /\ \A k \in 1..Len(good) : processed_files[k][1] = ExpectedOutputName(good[k])
      /\ warnings = [k \in 1..Len(bad) |-> bad[k].name]
      /\ pc = "done" =>
           /\ idx = Len(uploaded_files)
           /\ (download # NoDownload) <=> (processed_files # <<>>)
           /\ processed_files # <<>> =>
                download = [k \in 1..Len(good) |-> ExpectedOutputName(good[k])]
      /\ pc # "done" => download = NoDownload

\* a batch of three files whose second file cannot be opened: the first and the
\* third are in the offered ZIP
FailureInTheMiddle ==
  /\ pc = "done"
  /\ Len(uploaded_files) = 3
  /\ uploaded_files[1].fault = "none"
  /\ uploaded_files[2].fault = "open"
  /\ uploaded_files[3].fault = "none"
  /\ Len(warnings) = 1
  /\ Len(download) = 2
  /\ download[2] = ExpectedOutputName(uploaded_files[3])

(***************************************************************************)
(* Name continuation                                                       *)
(***************************************************************************)
\* the line after index j exists and is neither empty, nor a bare integer, nor a
\* day/month label, nor one of the header words skipped as noise
IsNameContinuation(ls, j) ==
  /\ j + 1 < Len(ls)
  /\ LineAt(ls, j + 1) # <<>>
  /\ ~MatchDigits(LineAt(ls, j + 1))
  /\ ~MatchDayMonth(LineAt(ls, j + 1))
  /\ LineAt(ls, j + 1) \notin HeaderWords

\* C11: the line after a meal-name line is merged into the name, joined by a
\* space, exactly if it is not empty, not a bare integer, not a day/month label
\* and not one of the stop words skipped as noise (the column headers and the
\* cycle label); at most one line is merged, and a merged line starts no record.
ContinuationUnlessNoiseWord ==
  \A k \in 1..Len(starts) :
    LET e == starts[k]
    IN  /\ e.last \in {e.start, e.start + 1}
        /\ (e.last = e.start + 1) <=> IsNameContinuation(lines, e.start)
        /\ e.name = (IF e.last = e.start THEN LineAt(lines, e.start)
                     ELSE LineAt(lines, e.start) \o <<" ">> \o LineAt(lines, e.start + 1))
        /\ \A n \in 1..Len(starts) : e.last = e.start + 1 => starts[n].start # e.last

(***************************************************************************)
(* Total lines                                                             *)
(***************************************************************************)
ContainsTotal(line) == Contains(Str_total, Lower(line))

\* C12: a line that contains "total" in any letter case is never content: it
\* starts no meal record and it is never merged into a name as its continuation
\* line, so no categorized name and no key of the page totals carries its text.
TotalLineNeverContent ==
  /\ \A k \in 1..Len(starts) :
       LET e == starts[k]
       IN  /\ ~ContainsTotal(LineAt(lines, e.start))
           /\ e.last = e.start + 1 => ~ContainsTotal(LineAt(lines, e.last))
           /\ ~ContainsTotal(e.name)
  /\ \A key \in Keys(meal_counts) : ~ContainsTotal(key)

(***************************************************************************)
(* Cursor                                                                  *)
(***************************************************************************)
\* the index of the line whose value is the quantity found after index last
QuantityLine(ls, last) ==
  CHOOSE j \in (last + 1)..(last + 4) :
    /\ IsValidQuantityLine(ls, j)
    /\ \A m \in (last + 1)..(j - 1) : ~IsValidQuantityLine(ls, m)

\* C13: every iteration of the loop moves the cursor forward: by 1 on a line that
\* starts no record and on a name line without continuation, by 2 on a name line
\* with a merged continuation line, whether or not a quantity was found; the
\* cursor never passes the end of the page and every record starts behind the
\* lines of the records before it, so the loop takes at most len(lines)
\* iterations and no line is tried as a name start twice; the lookahead moves
\* nothing, the lines it read are met by the cursor again.
CursorMovesPastNameOnly ==
  [][ (pc = "scan" /\ pc' = "scan") =>
        /\ i' \in {i + 1, i + 2}
        /\ i' <= Len(lines)
        /\ lines' = lines
        /\ IF IsMealLine(lines, i)
           THEN /\ Len(starts') = Len(starts) + 1
                /\ LET e == starts'[Len(starts')]
                   IN  /\ e.start = i
                       /\ i' = e.last + 1
                       /\ i' = i + 2 <=> IsContinuation(lines, i)
                       /\ \A k \in 1..Len(starts) : starts[k].last < e.start
           ELSE /\ i' = i + 1
                /\ starts' = starts
                /\ meal_counts' = meal_counts ]_vars

\* two names, the first with a merged continuation line, were given the quantity
\* of one and the same line
QuantityLineUsedTwice ==
  \E k1, k2 \in 1..Len(starts) :
    /\ k1 < k2
    /\ starts[k1].last = starts[k1].start + 1
    /\ starts[k1].quantity > 0
    /\ starts[k2].quantity > 0
    /\ QuantityLine(lines, starts[k1].last) = QuantityLine(lines, starts[k2].last)
    /\ \E k \in 1..Len(meal_counts) :
         meal_counts[k][2] >= starts[k1].quantity + starts[k2].quantity

(***************************************************************************)
(* Record starts                                                           *)
(***************************************************************************)
IsCandidate(line) ==
  /\ line # <<>>
  /\ line \notin HeaderWords
  /\ ~MatchDayMonth(line)
  /\ ~MatchYear(line)
  /\ ~MatchDate(line)
  /\ ~ContainsTotal(line)

ContainsFood(line) == \E keyword \in FoodKeywords : Contains(keyword, Lower(line))

ContainsVeggie(line) ==
  Contains(Str_vegetarian, Lower(line)) \/ Contains(Str_veggie, Lower(line))

StartsRecord(j) == \E k \in 1..Len(starts) : starts[k].start = j

\* C14: a record starts only on a candidate line (not empty, no stop word, no
\* day/month label, 4-digit token or date, no "total") that contains one of the
\* ten food keywords; so a noise line with a food keyword starts none, a
\* candidate with only a category keyword starts none, and the key "Vegetarian
\* Meal" is in the page totals only through a record whose start line has a food
\* keyword and whose start line or merged continuation line has the category
\* keyword.
RecordStartsOnFoodCandidate ==
  /\ \A k \in 1..Len(starts) :
       /\ IsCandidate(LineAt(lines, starts[k].start))
       /\ ContainsFood(LineAt(lines, starts[k].start))
  /\ VegetarianMeal \in Keys(meal_counts) =>
       \E k \in 1..Len(starts) :
         LET e == starts[k]
         IN  /\ e.category = VegetarianMeal
             /\ ContainsFood(LineAt(lines, e.start))
             /\ \/ ContainsVeggie(LineAt(lines, e.start))
                \/ e.last = e.start + 1 /\ ContainsVeggie(LineAt(lines, e.last))

\* a scanned page with a day/month label that has a food keyword and a candidate
\* with only a category keyword and a valid quantity behind it, neither of which
\* started a record, and the total of a name that took its category keyword
\* from its continuation line
VeggieOnlyThroughFoodLine ==
  /\ pc = "scan"
  /\ i >= Len(lines)
  /\ \E j \in 0..(Len(lines) - 1) :
       /\ MatchDayMonth(LineAt(lines, j))
       /\ ContainsFood(LineAt(lines, j))
       /\ ~StartsRecord(j)
  /\ \E j \in 0..(Len(lines) - 1) :
       /\ IsCandidate(LineAt(lines, j))
       /\ ContainsVeggie(LineAt(lines, j))
       /\ ~ContainsFood(LineAt(lines, j))
       /\ IsValidQuantityLine(lines, j + 1)
       /\ ~StartsRecord(j)
  /\ \E k \in 1..Len(starts) :
       /\ starts[k].category = VegetarianMeal
       /\ ~ContainsVeggie(LineAt(lines, starts[k].start))
  /\ VegetarianMeal \in Keys(meal_counts)

====
